---- MODULE Spec2Model ----
(***************************************************************************)
(* rcs2git.py: per-file RCS revision timelines are flattened into          *)
(* SingleFileCommit records, sorted by timestamp, coalesced into           *)
(* multi-file commits and written as a git fast-import stream.             *)
(*                                                                         *)
(* The histories returned by collect_histories are the input of the        *)
(* model; main() runs from there on: build_single_file_commits, then the   *)
(* single-file path or coalesce_commits, then emit_all on a                *)
(* FastImportEmitter.                                                      *)
(***************************************************************************)
EXTENDS Integers, Sequences, FiniteSets, TLC

(* ---------- helpers ---------- *)

Max(S) == CHOOSE x \in S : \A y \in S : y <= x

Min(S) == CHOOSE x \in S : \A y \in S : x <= y

(* ---------- bounds of the model ---------- *)

\* revisions per file timeline
MaxRevs == 2
\* timestamps of revisions are drawn from 1..MaxTs
MaxTs == 3

\* paths of the ,v files, in the order collect_histories returns their histories
RcsPaths == <<"a,v", "b,v">>
\* two ,v files of different directories with the same base name
SameNamePaths == <<"a,v", "d/a,v">>
\* values of --rcs-commit-fuzz
Fuzzes == {0, 1}
\* the fuzz of the runs that vary the symbols
DefaultFuzz == Max(Fuzzes)
\* (author, log) pairs of a revision
OneKey == <<"u1", "m1">>
AuthorKeys == {OneKey, <<"u2", "m1">>}
LogKeys == {OneKey, <<"u1", "m2">>}
\* symbol names, in sorted order
SymbolOrder == <<"T1", "T2">>
\* symbol sets of a revision
TaggedOrNot == {{}, {"T1"}}
TwoSymbols == {{"T1"}, {"T2"}}
\* texts of a revision, as sequences of characters
PlainText == <<"t">>
ShebangText == <<"#", "!", "s">>
\* texts that nearly begin with "#!"
OtherTexts == {<<"#">>, <<"!", "#">>, <<"t", "#", "!">>}
\* outcomes of `co` for a revision: the text printed, or co raising
CoOk(text) == [ok |-> TRUE, text |-> text]
CoFailed == [ok |-> FALSE, text |-> <<>>]
\* a single ,v file
OnePath == <<"a,v">>

VARIABLES
    histories,       \* List[FileHistory] returned by collect_histories
    commit_fuzz,     \* args.rcs_commit_fuzz
    symbol_check,    \* args.symbol_check
    tag_each_rev,    \* args.tag_each_rev
    log_filename,    \* args.log_filename
    pc,              \* position in main() / emit_all()
    sfcs,            \* sfcs of main(): List[SingleFileCommit]
    commits,         \* commits of main(): List[Dict]
    next_mark,       \* FastImportEmitter._next_mark
    blob_marks,      \* FastImportEmitter._blob_marks
    last_commit_mark_for_file, \* FastImportEmitter._last_commit_mark_for_file
    stream,          \* objects written to stdout, in order
    idx,             \* emit_all: index of the commit being emitted (1-based)
    fpos,            \* emit_all: position of the blob loop in files
    parent_mark,     \* emit_all: parent_mark of the commit (0 is None)
    tree_entries,    \* emit_all: tree_entries of the commit
    date_s,          \* parse_rcs_date: the argument s, a sequence of characters
    iso,             \* parse_rcs_date: what datetime.fromisoformat(s) does
    now,             \* parse_rcs_date: what time.time() returns
    parts,           \* parse_rcs_date: parts
    date_pc,         \* position in parse_rcs_date
    date_ts,         \* parse_rcs_date: the value returned
    report,          \* the revision blocks the rlog report was printed from
    rlog_lines,      \* parse_rlog: lines
    rlog_i,          \* parse_rlog: i (1-based)
    in_header_section, \* parse_rlog: in_header_section
    cur_rev,         \* parse_rlog: cur_rev, <<>> for None
    fh_symbols,      \* parse_rlog: fh.symbols
    fh_revisions,    \* parse_rlog: fh.revisions
    rlog_pc          \* position in parse_rlog

vars == <<histories, commit_fuzz, symbol_check, tag_each_rev, log_filename, pc,
          sfcs, commits, next_mark, blob_marks, last_commit_mark_for_file,
          stream, idx, fpos, parent_mark, tree_entries,
          date_s, iso, now, parts, date_pc, date_ts,
          report, rlog_lines, rlog_i, in_header_section, cur_rev, fh_symbols,
          fh_revisions, rlog_pc>>

config == <<histories, commit_fuzz, symbol_check, tag_each_rev, log_filename>>
emitter == <<next_mark, blob_marks, last_commit_mark_for_file, stream>>
emit_locals == <<idx, fpos, parent_mark, tree_entries>>
parser == <<date_s, iso, now, parts, date_pc, date_ts>>
rlog == <<report, rlog_lines, rlog_i, in_header_section, cur_rev, fh_symbols,
          fh_revisions, rlog_pc>>

(* ---------- sequences ---------- *)

Range(s) == {s[k] : k \in 1..Len(s)}

\* list.index(x): position of the first element equal to x
IndexOf(s, x) == Min({k \in 1..Len(s) : s[k] = x})

RECURSIVE Concat(_)
Concat(ss) == IF ss = <<>> THEN <<>> ELSE Head(ss) \o Concat(Tail(ss))

\* revision label of the k-th revision of a file, oldest first
RevId(k) == "1." \o ToString(k)

\* time.time(): later than every recorded date
NowTs == MaxTs + 1

(* ---------- SingleFileCommit ---------- *)

\* content after the try/except around get_revision_content; rev.co is the
\* outcome of `co`: ok and the text, or not ok when co raises
FetchedContent(rev) == IF rev.co.ok THEN rev.co.text ELSE <<>>

SingleFileCommit(filename, rcs_path, rev, content) ==
    [filename |-> filename,
     rcs_path |-> rcs_path,
     rev_id   |-> rev.rev,
     author   |-> IF rev.author = "" THEN "unknown" ELSE rev.author,
     date_ts  |-> IF rev.date_ts = 0 THEN NowTs ELSE rev.date_ts,
     log      |-> rev.log,
     symbols  |-> rev.symbols,
     content  |-> content]

(* ---------- build_single_file_commits ---------- *)

\* a revision whose fetch failed left out
HistoryCommits_DropFailed(fh) ==
    LET fetched == SelectSeq(fh.revisions, LAMBDA r : r.co.ok)
    IN  [k \in 1..Len(fetched) |->
            SingleFileCommit(fh.filename, fh.rcs_path, fetched[k], fetched[k].co.text)]

\* the records of one history, in the order of fh.revisions
HistoryCommits(fh) ==
    [k \in 1..Len(fh.revisions) |->
        SingleFileCommit(fh.filename, fh.rcs_path, fh.revisions[k],
                         FetchedContent(fh.revisions[k]))]

\* insertion of x after every element whose key is <= its own (stable)
RECURSIVE InsertByTs(_, _)
InsertByTs(s, x) ==
    IF s = <<>> THEN <<x>>
    ELSE IF s[Len(s)].date_ts <= x.date_ts THEN Append(s, x)
    ELSE Append(InsertByTs(SubSeq(s, 1, Len(s) - 1), x), s[Len(s)])

RECURSIVE SortedPrefix(_, _)
SortedPrefix(s, n) ==
    IF n = 0 THEN <<>> ELSE InsertByTs(SortedPrefix(s, n - 1), s[n])

\* a sort that was left out
SortByTs_Unsorted(s) == s

\* sfcs.sort(key=lambda s: s.date_ts): stable, ascending
SortByTs(s) == SortedPrefix(s, Len(s))

BuildSingleFileCommits(hs) ==
    SortByTs(Concat([h \in 1..Len(hs) |-> HistoryCommits(hs[h])]))

(* ---------- coalesce_commits ---------- *)

\* the duplicate-filename test left out
DuplicateFilename_Never(cand, group_files) == FALSE

\* cand.filename in {f.filename for f in group_files}
DuplicateFilename(cand, group_files) ==
    cand.filename \in {group_files[k].filename : k \in 1..Len(group_files)}

\* a tagged and an untagged side kept apart as well
SymbolMismatch_EmptyApart(cand, group_symbols) ==
    \/ ~(group_symbols \subseteq cand.symbols \/ cand.symbols \subseteq group_symbols)
    \/ (cand.symbols = {}) # (group_symbols = {})

\* no candidate turned away for its symbols
SymbolMismatch_Never(cand, group_symbols) == FALSE

\* not (group_symbols.issubset(cand.symbols) or cand.symbols.issubset(group_symbols))
SymbolMismatch(cand, group_symbols) ==
    ~(group_symbols \subseteq cand.symbols \/ cand.symbols \subseteq group_symbols)

\* the window left open at its far end
OutsideWindow_Closed(cand, base, fuzz) == cand.date_ts >= base.date_ts + fuzz

\* cand.date_ts > base.date_ts + commit_fuzz
OutsideWindow(cand, base, fuzz) == cand.date_ts > base.date_ts + fuzz

\* the authors compared, the log messages not
KeyMismatch_AuthorOnly(cand, base) == cand.author # base.author

\* cand.author != base.author or cand.log != base.log
KeyMismatch(cand, base) == cand.author # base.author \/ cand.log # base.log

\* the inner while loop, from candidate j on
RECURSIVE ScanWindow(_, _, _, _, _, _, _)
ScanWindow(single_commits, base, j, group_files, group_symbols, fuzz, symcheck) ==
    IF j > Len(single_commits)
    THEN [files |-> group_files, symbols |-> group_symbols]
    ELSE LET cand == single_commits[j] IN
         IF OutsideWindow(cand, base, fuzz)
         THEN [files |-> group_files, symbols |-> group_symbols]
         ELSE IF KeyMismatch(cand, base)
         THEN ScanWindow(single_commits, base, j + 1, group_files, group_symbols,
                         fuzz, symcheck)
         ELSE IF symcheck /\ SymbolMismatch(cand, group_symbols)
         THEN ScanWindow(single_commits, base, j + 1, group_files, group_symbols,
                         fuzz, symcheck)
         ELSE IF DuplicateFilename(cand, group_files)
         THEN ScanWindow(single_commits, base, j + 1, group_files, group_symbols,
                         fuzz, symcheck)
         ELSE ScanWindow(single_commits, base, j + 1, Append(group_files, cand),
                         group_symbols \cup cand.symbols, fuzz, symcheck)

\* the index of the anchor instead of the highest index of the group
MaxIdx_Anchor(single_commits, group_files) ==
    IndexOf(single_commits, group_files[1])

\* max(single_commits.index(f) for f in group_files)
MaxIdx(single_commits, group_files) ==
    Max({IndexOf(single_commits, group_files[k]) : k \in 1..Len(group_files)})

\* only the first "i = i + 1" of the loop's tail
NextAnchor_Sequential(i, max_idx) == i + 1

\* i = i + 1, then i = max_idx + 1
NextAnchor(i, max_idx) == max_idx + 1

\* the outer while loop, from anchor i on
RECURSIVE CoalesceFrom(_, _, _, _, _)
CoalesceFrom(single_commits, i, fuzz, symcheck, acc) ==
    IF i > Len(single_commits) THEN acc
    ELSE LET base == single_commits[i]
             g == ScanWindow(single_commits, base, i + 1, <<base>>, base.symbols,
                             fuzz, symcheck)
             commit == [date_ts |-> base.date_ts,
                        author  |-> base.author,
                        log     |-> base.log,
                        files   |-> g.files,
                        symbols |-> g.symbols]
         IN  CoalesceFrom(single_commits,
                          NextAnchor(i, MaxIdx(single_commits, g.files)),
                          fuzz, symcheck, Append(acc, commit))

coalesce_commits(single_commits, fuzz, symcheck) ==
    CoalesceFrom(single_commits, 1, fuzz, symcheck, <<>>)

\* the commits of the single-file path without their symbols
SingleFileCommits_NoSymbols(ss) ==
    [k \in 1..Len(ss) |->
        [date_ts |-> ss[k].date_ts,
         author  |-> ss[k].author,
         log     |-> ss[k].log,
         files   |-> <<ss[k]>>,
         symbols |-> {}]]

\* main(), len(histories) == 1: one commit per record
SingleFileCommits(ss) ==
    [k \in 1..Len(ss) |->
        [date_ts |-> ss[k].date_ts,
         author  |-> ss[k].author,
         log     |-> ss[k].log,
         files   |-> <<ss[k]>>,
         symbols |-> ss[k].symbols]]

(* ---------- FastImportEmitter ---------- *)

\* a counter that is read but not advanced
NextMarkAfter_Stuck(m) == m

\* _alloc_mark: self._next_mark += 1
NextMarkAfter(m) == m + 1

\* one symbol of the commit only
SortedSymbols_Once(S) == IF S = {} THEN <<>> ELSE <<CHOOSE t \in S : TRUE>>

\* sorted(commit.get("symbols", []))
SortedSymbols(S) == SelectSeq(SymbolOrder, LAMBDA t : t \in S)

\* every call takes the pair for a new one
KnownBlob_Never(key, table) == FALSE

\* emit_blob: key in self._blob_marks
KnownBlob(key, table) == key \in DOMAIN table

\* emit_all: the last commit marks of the files of the commit that are set
CandidateParents(files, table) ==
    {table[files[k].filename] :
        k \in {n \in 1..Len(files) :
                 /\ files[n].filename \in DOMAIN table
                 /\ table[files[n].filename] # 0}}

\* the oldest candidate instead of the most recent
ParentMark_Oldest(candidate_parents) ==
    IF candidate_parents = {} THEN 0 ELSE Min(candidate_parents)

\* max(candidate_parents) if candidate_parents else None
ParentMark(candidate_parents) ==
    IF candidate_parents = {} THEN 0 ELSE Max(candidate_parents)

\* the first character tested alone
StartsWithShebang_FirstChar(content) ==
    Len(content) >= 1 /\ content[1] = "#"

\* "755" if sf.content.startswith("#!") else "644"
StartsWithShebang(content) ==
    Len(content) >= 2 /\ SubSeq(content, 1, 2) = <<"#", "!">>

FileMode(content) == IF StartsWithShebang(content) THEN "755" ELSE "644"

\* the table left as it was
LastCommitUpdate_Skipped(table, entries, commit_mark) == table

\* every file of the table moved to the new commit
LastCommitUpdate_Every(table, entries, commit_mark) ==
    [f \in DOMAIN table \cup {entries[k].path : k \in 1..Len(entries)} |-> commit_mark]

\* the mark after the commit's recorded for the touched files
LastCommitUpdate_Ahead(table, entries, commit_mark) ==
    LET touched == {entries[k].path : k \in {n \in 1..Len(entries) : entries[n].bmark # 0}}
    IN  [f \in DOMAIN table \cup touched |->
            IF f \in touched THEN commit_mark + 1 ELSE table[f]]

\* emit_commit: self._last_commit_mark_for_file[path] = commit_mark
LastCommitUpdate(table, entries, commit_mark) ==
    LET touched == {entries[k].path : k \in {n \in 1..Len(entries) : entries[n].bmark # 0}}
    IN  [f \in DOMAIN table \cup touched |->
            IF f \in touched THEN commit_mark ELSE table[f]]

\* the path operations of a commit object
PathOps(entries) ==
    [k \in 1..Len(entries) |->
        IF entries[k].bmark = 0
        THEN [op |-> "D", path |-> entries[k].path, mode |-> "", bmark |-> 0]
        ELSE [op |-> "M", path |-> entries[k].path, mode |-> entries[k].mode,
              bmark |-> entries[k].bmark]]

\* emit_all: logmsg, prefixed with the file name for a single-file commit
LogMessage(commit, prefix) ==
    IF prefix /\ Len(commit.files) = 1
    THEN commit.files[1].filename \o ": " \o commit.log
    ELSE commit.log

(* ---------- inputs ---------- *)

\* os.path.basename(rcs_path).replace(",v", "")
Filename(rcs_path) ==
    CASE rcs_path = "a,v"   -> "a"
      [] rcs_path = "b,v"   -> "b"
      [] rcs_path = "d/a,v" -> "a"

\* a Revision as parse_rlog leaves it
Revision(k, c) ==
    [rev     |-> RevId(k),
     date_ts |-> c.date_ts,
     author  |-> c.key[1],
     log     |-> c.key[2],
     symbols |-> c.symbols,
     co      |-> c.co]

\* the timelines of n revisions, oldest first, with increasing dates
Timelines(n, keys, symsets, cos) ==
    LET Choice == [date_ts : 1..MaxTs, key : keys, symbols : symsets, co : cos]
        Rising == {c \in [1..n -> Choice] :
                     \A k \in 1..(n - 1) : c[k].date_ts < c[k + 1].date_ts}
    IN  {[k \in 1..n |-> Revision(k, c[k])] : c \in Rising}

AllTimelines(keys, symsets, cos) ==
    UNION {Timelines(n, keys, symsets, cos) : n \in 0..MaxRevs}

FileHistory(rcs_path, revisions) ==
    [rcs_path |-> rcs_path, filename |-> Filename(rcs_path), revisions |-> revisions]

\* histories of the files of paths that were found, each with one timeline
HistoryLists(paths, keys, symsets, cos) ==
    LET N == Len(paths)
        Found(pres) == SelectSeq([i \in 1..N |-> i], LAMBDA i : i \in pres)
        Lists(pres) ==
            {[k \in 1..Len(Found(pres)) |->
                 FileHistory(paths[Found(pres)[k]], rs[Found(pres)[k]])] :
                rs \in {r \in [1..N -> AllTimelines(keys, symsets, cos)] :
                          \A i \in 1..N : i \notin pres => r[i] = <<>>}}
    IN  UNION {Lists(pres) : pres \in SUBSET (1..N)}

EmitterInit ==
    /\ next_mark = 1
    /\ blob_marks = <<>>
    /\ last_commit_mark_for_file = <<>>
    /\ stream = <<>>

ProgramInit ==
    /\ pc = "main"
    /\ sfcs = <<>>
    /\ commits = <<>>
    /\ EmitterInit
    /\ idx = 1
    /\ fpos = 1
    /\ parent_mark = 0
    /\ tree_entries = <<>>

\* parse_rcs_date is not running
ParserIdle ==
    /\ date_s = <<>>
    /\ iso = [ok |-> FALSE]
    /\ now = [days |-> 0, secs |-> 0]
    /\ parts = <<>>
    /\ date_pc = "idle"
    /\ date_ts = [days |-> 0, secs |-> 0]

\* parse_rlog is not running
RlogIdle ==
    /\ report = <<>>
    /\ rlog_lines = <<>>
    /\ rlog_i = 1
    /\ in_header_section = TRUE
    /\ cur_rev = <<>>
    /\ fh_symbols = <<>>
    /\ fh_revisions = <<>>
    /\ rlog_pc = "idle"

\* the authors of the revisions vary
InitAuthors ==
    /\ histories \in HistoryLists(RcsPaths, AuthorKeys, {{}}, {CoOk(PlainText)})
    /\ commit_fuzz = DefaultFuzz
    /\ symbol_check = TRUE
    /\ tag_each_rev = FALSE
    /\ log_filename = FALSE

\* the log messages of the revisions vary
InitLogs ==
    /\ histories \in HistoryLists(RcsPaths, LogKeys, {{}}, {CoOk(PlainText)})
    /\ commit_fuzz \in Fuzzes
    /\ symbol_check = TRUE
    /\ tag_each_rev = FALSE
    /\ log_filename = FALSE

\* tagged and untagged revisions under the symbol check
InitTagged ==
    /\ histories \in HistoryLists(RcsPaths, {OneKey}, TaggedOrNot, {CoOk(PlainText)})
    /\ commit_fuzz = DefaultFuzz
    /\ symbol_check = TRUE
    /\ tag_each_rev = FALSE
    /\ log_filename = FALSE

\* revisions under two different symbols, with and without the symbol check,
\* every revision tagged
InitSymbols ==
    /\ histories \in HistoryLists(RcsPaths, {OneKey}, TwoSymbols, {CoOk(PlainText)})
    /\ commit_fuzz = DefaultFuzz
    /\ symbol_check \in BOOLEAN
    /\ tag_each_rev = TRUE
    /\ log_filename = FALSE

\* two files of one base name; tagging and log prefix vary
InitSameName ==
    /\ histories \in HistoryLists(SameNamePaths, {OneKey}, {{}}, {CoOk(PlainText)})
    /\ commit_fuzz \in Fuzzes
    /\ symbol_check = TRUE
    /\ tag_each_rev \in BOOLEAN
    /\ log_filename \in BOOLEAN

\* every revision is dated by its position in the timeline
DatedByPosition(hs) ==
    \A h \in 1..Len(hs) : \A k \in 1..Len(hs[h].revisions) :
        hs[h].revisions[k].date_ts = k

\* scripts, and revisions that co cannot print
InitContents ==
    /\ histories \in {hs \in HistoryLists(RcsPaths, {OneKey}, {{}},
                                          {CoOk(ShebangText), CoFailed}) :
                         DatedByPosition(hs)}
    /\ commit_fuzz = DefaultFuzz
    /\ symbol_check = TRUE
    /\ tag_each_rev = FALSE
    /\ log_filename = FALSE

\* one file whose revisions have all kinds of text
InitOneFile ==
    /\ histories \in HistoryLists(OnePath, {OneKey}, {{}},
                                  {CoOk(t) : t \in {PlainText, ShebangText} \cup OtherTexts}
                                      \cup {CoFailed})
    /\ commit_fuzz = DefaultFuzz
    /\ symbol_check = TRUE
    /\ tag_each_rev = FALSE
    /\ log_filename = FALSE

\* one file whose revisions vary in log message and symbols
InitOneFileKeys ==
    /\ histories \in HistoryLists(OnePath, LogKeys, TaggedOrNot, {CoOk(PlainText)})
    /\ commit_fuzz = DefaultFuzz
    /\ symbol_check = TRUE
    /\ tag_each_rev = FALSE
    /\ log_filename = FALSE

Init ==
    /\ \/ InitAuthors
       \/ InitLogs
       \/ InitTagged
       \/ InitSymbols
       \/ InitSameName
       \/ InitContents
       \/ InitOneFile
       \/ InitOneFileKeys
    /\ ProgramInit
    /\ ParserIdle
    /\ RlogIdle

(* ---------- main ---------- *)

\* if not histories: sys.exit(1)
NoHistories ==
    /\ pc = "main"
    /\ histories = <<>>
    /\ pc' = "exit_1"
    /\ UNCHANGED <<rlog, parser, config, sfcs, commits, emitter, emit_locals>>

\* sfcs = build_single_file_commits(histories, ...)
Build ==
    /\ pc = "main"
    /\ histories # <<>>
    /\ sfcs' = BuildSingleFileCommits(histories)
    /\ pc' = "built"
    /\ UNCHANGED <<rlog, parser, config, commits, emitter, emit_locals>>

\* if len(histories) == 1: one commit per record
SingleFile ==
    /\ pc = "built"
    /\ Len(histories) = 1
    /\ commits' = SingleFileCommits(sfcs)
    /\ pc' = "emit_all"
    /\ UNCHANGED <<rlog, parser, config, sfcs, emitter, emit_locals>>

\* else: commits = coalesce_commits(sfcs, ...)
Coalesce ==
    /\ pc = "built"
    /\ Len(histories) # 1
    /\ commits' = coalesce_commits(sfcs, commit_fuzz, symbol_check)
    /\ pc' = "emit_all"
    /\ UNCHANGED <<rlog, parser, config, sfcs, emitter, emit_locals>>

(* ---------- emit_all ---------- *)

\* head of the loop over commits: the parent candidate of the next commit
EmitNextCommit ==
    /\ pc = "emit_all"
    /\ idx <= Len(commits)
    /\ parent_mark' = ParentMark(CandidateParents(commits[idx].files,
                                                  last_commit_mark_for_file))
    /\ tree_entries' = <<>>
    /\ fpos' = 1
    /\ pc' = "blobs"
    /\ UNCHANGED <<rlog, parser, config, sfcs, commits, emitter, idx>>

\* one pass of "for sf in files": emit_blob and the tree entry
EmitBlob ==
    /\ pc = "blobs"
    /\ fpos <= Len(commits[idx].files)
    /\ LET sf == commits[idx].files[fpos]
           mode == FileMode(sf.content)
           key == <<sf.filename, sf.rev_id>>
           known == KnownBlob(key, blob_marks)
           bmark == IF known THEN blob_marks[key] ELSE next_mark
       IN  /\ next_mark' = IF known THEN next_mark ELSE NextMarkAfter(next_mark)
           /\ blob_marks' = IF known THEN blob_marks
                            ELSE [k \in DOMAIN blob_marks \cup {key} |->
                                     IF k = key THEN bmark ELSE blob_marks[k]]
           /\ stream' = IF known THEN stream
                        ELSE Append(stream, [kind |-> "blob", mark |-> bmark,
                                             data |-> sf.content])
           /\ tree_entries' = Append(tree_entries,
                                     [path |-> sf.filename, bmark |-> bmark,
                                      mode |-> mode])
    /\ fpos' = fpos + 1
    /\ UNCHANGED <<rlog, parser, config, pc, sfcs, commits, last_commit_mark_for_file, idx,
                   parent_mark>>

\* emit_commit, then the per-revision tags of emit_all
EmitCommit ==
    /\ pc = "blobs"
    /\ fpos > Len(commits[idx].files)
    /\ LET commit == commits[idx]
           commit_mark == next_mark
           object == [kind    |-> "commit",
                      ref     |-> "refs/heads/master",
                      mark    |-> commit_mark,
                      author  |-> commit.author,
                      date_ts |-> commit.date_ts,
                      log     |-> LogMessage(commit, log_filename),
                      from    |-> parent_mark,
                      ops     |-> PathOps(tree_entries)]
           tags == SortedSymbols(commit.symbols)
           symbol_resets == [k \in 1..Len(tags) |->
                               [kind |-> "reset", tag |-> tags[k], from |-> commit_mark]]
           rev_resets == IF tag_each_rev
                         THEN [k \in 1..Len(commit.files) |->
                                 [kind |-> "reset", tag |-> commit.files[k].rev_id,
                                  from |-> commit_mark]]
                         ELSE <<>>
       IN  /\ next_mark' = NextMarkAfter(next_mark)
           /\ stream' = stream \o <<object>> \o symbol_resets \o rev_resets
           /\ last_commit_mark_for_file' =
                  LastCommitUpdate(last_commit_mark_for_file, tree_entries, commit_mark)
    /\ idx' = idx + 1
    /\ pc' = "emit_all"
    /\ UNCHANGED <<rlog, parser, config, sfcs, commits, blob_marks, fpos, parent_mark, tree_entries>>

\* the loop over commits is exhausted
EmitDone ==
    /\ pc = "emit_all"
    /\ idx > Len(commits)
    /\ pc' = "done"
    /\ UNCHANGED <<rlog, parser, config, sfcs, commits, emitter, emit_locals>>

Next ==
    \/ NoHistories
    \/ Build
    \/ SingleFile
    \/ Coalesce
    \/ EmitNextCommit
    \/ EmitBlob
    \/ EmitCommit
    \/ EmitDone

Spec == Init /\ [][Next]_vars

(* ---------- parse_rcs_date ---------- *)

\* a timestamp is the pair of its days since 1970-01-01 and its second of the
\* day: int(dt.timestamp()) is days * 86400 + secs
DigitChars == <<"0", "1", "2", "3", "4", "5", "6", "7", "8", "9">>

IsDigit(c) == c \in Range(DigitChars)

DigitVal(c) == IndexOf(DigitChars, c) - 1

IsSpace(c) == c = " "

\* str.lstrip
RECURSIVE LStrip(_)
LStrip(t) == IF t # <<>> /\ IsSpace(Head(t)) THEN LStrip(Tail(t)) ELSE t

\* str.rstrip
RECURSIVE RStrip(_)
RStrip(t) ==
    IF t # <<>> /\ IsSpace(t[Len(t)]) THEN RStrip(SubSeq(t, 1, Len(t) - 1)) ELSE t

\* str.strip
Strip(t) == RStrip(LStrip(t))

\* str.split(sep), from the characters t on, cur the field being read
RECURSIVE SplitFrom(_, _, _, _)
SplitFrom(t, sep, cur, acc) ==
    IF t = <<>> THEN Append(acc, cur)
    ELSE IF Head(t) = sep THEN SplitFrom(Tail(t), sep, <<>>, Append(acc, cur))
    ELSE SplitFrom(Tail(t), sep, Append(cur, Head(t)), acc)

Split(t, sep) == SplitFrom(t, sep, <<>>, <<>>)

\* the value of a sequence of decimal digits
RECURSIVE DigitsValue(_)
DigitsValue(t) ==
    IF t = <<>> THEN 0
    ELSE DigitsValue(SubSeq(t, 1, Len(t) - 1)) * 10 + DigitVal(t[Len(t)])

\* a non-empty sequence of decimal digits
AllDigits(t) == t # <<>> /\ \A k \in 1..Len(t) : IsDigit(t[k])

\* int(field): surrounding blanks and one sign are accepted; not ok is ValueError
ParseInt(field) ==
    LET t == Strip(field)
        signed == t # <<>> /\ t[1] \in {"+", "-"}
        body == IF signed THEN Tail(t) ELSE t
    IN  IF AllDigits(body)
        THEN [ok |-> TRUE,
              val |-> IF signed /\ t[1] = "-" THEN 0 - DigitsValue(body)
                      ELSE DigitsValue(body)]
        ELSE [ok |-> FALSE, val |-> 0]

IsLeap(year) == year % 4 = 0 /\ (year % 100 # 0 \/ year % 400 = 0)

MonthDays == <<31, 28, 31, 30, 31, 30, 31, 31, 30, 31, 30, 31>>

DaysInMonth(year, month) ==
    IF month = 2 /\ IsLeap(year) THEN 29 ELSE MonthDays[month]

\* the arguments datetime.datetime accepts; outside them it raises ValueError
ValidDateTime(year, month, day, hour, minute, second) ==
    /\ year \in 1..9999
    /\ month \in 1..12
    /\ day \in 1..DaysInMonth(year, month)
    /\ hour \in 0..23
    /\ minute \in 0..59
    /\ second \in 0..59

RECURSIVE DaysBeforeMonth(_, _)
DaysBeforeMonth(year, month) ==
    IF month = 1 THEN 0
    ELSE DaysBeforeMonth(year, month - 1) + DaysInMonth(year, month - 1)

\* the days from 1970-01-01 to the date, in the proleptic Gregorian calendar
DaysFromEpoch(year, month, day) ==
    LET y == year - 1
    IN  y * 365 + (y \div 4) - (y \div 100) + (y \div 400)
          + DaysBeforeMonth(year, month) + day - 719163

\* int(datetime.datetime(..., tzinfo=utc).timestamp())
Stamp(year, month, day, hour, minute, second) ==
    [days |-> DaysFromEpoch(year, month, day),
     secs |-> hour * 3600 + minute * 60 + second]

\* if len(y) < 3: y = "19" + y
ResolveYear(y) == IF Len(y) < 3 THEN <<"1", "9">> \o y ELSE y

\* the try block over the first six fields; any exception returns the time of
\* the call
FromParts(ps, clock) ==
    LET parts_i == [k \in 1..6 |-> ParseInt(IF k = 1 THEN ResolveYear(ps[1]) ELSE ps[k])]
    IN  IF /\ \A k \in 1..6 : parts_i[k].ok
           /\ ValidDateTime(parts_i[1].val, parts_i[2].val, parts_i[3].val,
                            parts_i[4].val, parts_i[5].val, parts_i[6].val)
        THEN Stamp(parts_i[1].val, parts_i[2].val, parts_i[3].val,
                   parts_i[4].val, parts_i[5].val, parts_i[6].val)
        ELSE clock

\* the fallback for fewer than six fields: fromisoformat, or the time of the call
FromIso(outcome, clock) == IF outcome.ok THEN outcome.ts ELSE clock

parse_rcs_date(t, outcome, clock) ==
    LET ps == Split(Strip(t), ".")
    IN  IF Len(ps) < 6 THEN FromIso(outcome, clock) ELSE FromParts(ps, clock)

(* ---------- inputs of parse_rcs_date ---------- *)

\* fields joined by dots
RECURSIVE Join(_)
Join(fields) ==
    IF fields = <<>> THEN <<>>
    ELSE IF Len(fields) = 1 THEN fields[1]
    ELSE fields[1] \o <<".">> \o Join(Tail(fields))

YearFields ==
    {<<"5">>, <<"0", "4">>, <<"9", "9">>, <<"0", "9", "9">>, <<"1", "9", "9", "9">>,
     <<"2", "0", "2", "3">>, <<"2", "0", "2", "4">>, <<"-", "5">>, <<"x">>, <<>>}
MonthFields == {<<"1">>, <<"0", "2">>, <<"1", "2">>, <<"1", "3">>}
DayFields == {<<"1">>, <<"2", "9">>, <<"3", "1">>, <<"0">>}
HourFields == {<<"0">>, <<"2", "3">>, <<"2", "4">>}
MinuteFields == {<<"0">>, <<"5", "9">>, <<"6", "0">>}
SecondFields == {<<"0", "0">>, <<"5", "9">>, <<"6", "0">>, <<"x">>}

\* 2023.10.27.10.30.00 and two fields more
LongDate ==
    <<<<"2", "0", "2", "3">>, <<"1", "0">>, <<"2", "7">>, <<"1", "0">>,
      <<"3", "0">>, <<"0", "0">>, <<"9", "9">>, <<"1">>>>

Pads == {<<>>, <<" ">>}

\* dates whose year, month and day vary
CalendarDates ==
    {Join(<<y, m, d, LongDate[4], LongDate[5], LongDate[6]>>) :
        y \in YearFields, m \in MonthFields, d \in DayFields}

\* dates whose hour, minute and second vary
ClockDates ==
    {Join(<<LongDate[1], LongDate[2], LongDate[3], h, m, x>>) :
        h \in HourFields, m \in MinuteFields, x \in SecondFields}

\* dates of zero to eight fields, with and without blanks around them
ShortAndLongDates ==
    {l \o Join(SubSeq(LongDate, 1, n)) \o r :
        n \in 0..Len(LongDate), l \in Pads, r \in Pads}

\* strings without a dot
OtherDates ==
    {<<"2", "0", "2", "3", "-", "1", "0", "-", "2", "7">>, <<"x", " ", "x">>}

DateStrings == CalendarDates \cup ClockDates \cup ShortAndLongDates \cup OtherDates

\* fromisoformat raises, or returns a date
IsoOutcomes == {[ok |-> FALSE], [ok |-> TRUE, ts |-> Stamp(2023, 10, 27, 0, 0, 0)]}

\* values of time.time()
Clock == {Stamp(2026, 11, 6, 12, 0, 0)}

\* main() is not running
PipelineIdle ==
    /\ histories = <<>>
    /\ commit_fuzz = DefaultFuzz
    /\ symbol_check = TRUE
    /\ tag_each_rev = FALSE
    /\ log_filename = FALSE
    /\ pc = "idle"
    /\ sfcs = <<>>
    /\ commits = <<>>
    /\ EmitterInit
    /\ idx = 1
    /\ fpos = 1
    /\ parent_mark = 0
    /\ tree_entries = <<>>

InitDate ==
    /\ date_s \in DateStrings
    /\ iso \in IsoOutcomes
    /\ now \in Clock
    /\ parts = <<>>
    /\ date_pc = "start"
    /\ date_ts = [days |-> 0, secs |-> 0]
    /\ PipelineIdle
    /\ RlogIdle

pipeline == <<config, pc, sfcs, commits, emitter, emit_locals>>

\* parts = s.strip().split(".")
SplitDate ==
    /\ date_pc = "start"
    /\ parts' = Split(Strip(date_s), ".")
    /\ date_pc' = IF Len(parts') < 6 THEN "fallback" ELSE "fields"
    /\ UNCHANGED <<rlog, pipeline, date_s, iso, now, date_ts>>

\* if len(parts) < 6
IsoFallback ==
    /\ date_pc = "fallback"
    /\ date_ts' = FromIso(iso, now)
    /\ date_pc' = "returned"
    /\ UNCHANGED <<rlog, pipeline, date_s, iso, now, parts>>

\* six fields or more
DateFromParts ==
    /\ date_pc = "fields"
    /\ date_ts' = FromParts(parts, now)
    /\ date_pc' = "returned"
    /\ UNCHANGED <<rlog, pipeline, date_s, iso, now, parts>>

NextDate ==
    \/ SplitDate
    \/ IsoFallback
    \/ DateFromParts

SpecDate == InitDate /\ [][NextDate]_vars

(* ---------- parse_rlog ---------- *)

\* lines are strings; an Optional value is <<>> for None and <<v>> for v
\* the characters of a string, as parse_rcs_date reads them
Chars(t) == [k \in 1..Len(t) |-> SubSeq(t, k, k)]

IsBlank(c) == c = " " \/ c = "\t" \/ c = "\n"

\* str.lstrip
RECURSIVE LStripS(_)
LStripS(t) ==
    IF Len(t) > 0 /\ IsBlank(SubSeq(t, 1, 1)) THEN LStripS(SubSeq(t, 2, Len(t))) ELSE t

\* str.rstrip
RECURSIVE RStripS(_)
RStripS(t) ==
    IF Len(t) > 0 /\ IsBlank(SubSeq(t, Len(t), Len(t)))
    THEN RStripS(SubSeq(t, 1, Len(t) - 1))
    ELSE t

\* str.strip
StripS(t) == RStripS(LStripS(t))

\* str.startswith
StartsWith(t, prefix) ==
    Len(t) >= Len(prefix) /\ SubSeq(t, 1, Len(prefix)) = prefix

\* the first position of character c in t, 0 if there is none
Find(t, c) ==
    LET ks == {k \in 1..Len(t) : SubSeq(t, k, k) = c}
    IN  IF ks = {} THEN 0 ELSE Min(ks)

\* t.split(c)
RECURSIVE SplitOn(_, _)
SplitOn(t, c) ==
    LET k == Find(t, c)
    IN  IF k = 0 THEN <<t>>
        ELSE <<SubSeq(t, 1, k - 1)>> \o SplitOn(SubSeq(t, k + 1, Len(t)), c)

\* t.split(c, 1)
SplitOnce(t, c) ==
    LET k == Find(t, c)
    IN  IF k = 0 THEN <<t>> ELSE <<SubSeq(t, 1, k - 1), SubSeq(t, k + 1, Len(t))>>

\* t.split()
RECURSIVE Words(_)
Words(t) ==
    LET u == LStripS(t)
        ks == {j \in 1..Len(u) : IsBlank(SubSeq(u, j, j))}
        k == IF ks = {} THEN 0 ELSE Min(ks)
    IN  IF u = "" THEN <<>>
        ELSE IF k = 0 THEN <<u>>
        ELSE <<SubSeq(u, 1, k - 1)>> \o Words(SubSeq(u, k + 1, Len(u)))

\* p.split(prefix, 1)[1] for a p that starts with prefix
After(p, prefix) == SubSeq(p, Len(prefix) + 1, Len(p))

\* "\n".join(ls)
RECURSIVE JoinLines(_)
JoinLines(ls) ==
    IF ls = <<>> THEN ""
    ELSE IF Len(ls) = 1 THEN ls[1]
    ELSE ls[1] \o "\n" \o JoinLines(Tail(ls))

\* line.strip().startswith("revision ")
IsRevisionMarker(line) == StartsWith(StripS(line), "revision ")

\* Revision(revid)
NewRevision(revid) ==
    [rev      |-> revid,
     date_iso |-> <<>>,
     date_ts  |-> <<>>,
     author   |-> <<>>,
     state    |-> <<>>,
     branches |-> <<>>,
     symbols  |-> {},
     log      |-> ""]

\* one field of a "date:" line applied to the revision
ApplyField(rev, field, outcome, clock) ==
    LET p == StripS(field)
    IN  IF StartsWith(p, "date:")
        THEN [rev EXCEPT !.date_iso = <<StripS(After(p, "date:"))>>,
                         !.date_ts = <<parse_rcs_date(Chars(StripS(After(p, "date:"))),
                                                         outcome, clock)>>]
        ELSE IF StartsWith(p, "author:")
        THEN [rev EXCEPT !.author = <<StripS(After(p, "author:"))>>]
        ELSE IF StartsWith(p, "state:")
        THEN [rev EXCEPT !.state = <<StripS(After(p, "state:"))>>]
        ELSE IF StartsWith(p, "branches:") /\ StripS(After(p, "branches:")) # ""
        THEN [rev EXCEPT !.branches = Words(After(p, "branches:"))]
        ELSE rev

\* for p in ls.split(";")
RECURSIVE ApplyFields(_, _, _, _)
ApplyFields(rev, fields, outcome, clock) ==
    IF fields = <<>> THEN rev
    ELSE ApplyFields(ApplyField(rev, Head(fields), outcome, clock), Tail(fields),
                     outcome, clock)

\* the continuation lines of a symbols line joined to it, up to a line that
\* begins with the stop word
RECURSIVE SymbolRest(_, _, _, _)
SymbolRest(rest, j, lines, stop) ==
    IF /\ Find(rest, ";") # 0
       /\ LET r == StripS(rest) IN SubSeq(r, Len(r), Len(r)) # ";"
       /\ j <= Len(lines)
       /\ ~StartsWith(StripS(lines[j]), stop)
    THEN SymbolRest(rest \o " " \o StripS(lines[j]), j + 1, lines, stop)
    ELSE rest

\* the name:rev pairs of a symbols line
SymbolPairs(rest) ==
    LET pairs == SplitOn(StripS(rest), ";")
        stripped == [k \in 1..Len(pairs) |-> StripS(pairs[k])]
        named == SelectSeq(stripped, LAMBDA q : q # "" /\ Find(q, ":") # 0)
    IN  [k \in 1..Len(named) |->
            [name |-> StripS(SplitOnce(named[k], ":")[1]),
             rev  |-> StripS(SplitOnce(named[k], ":")[2])]]

\* the text after the first colon of a symbols line
SymbolLineRest(stripped) ==
    IF Find(stripped, ":") # 0 THEN SplitOnce(stripped, ":")[2] ELSE ""

\* fh.symbols[name.strip()] = rev.strip(), pair after pair
RECURSIVE AssignSymbols(_, _)
AssignSymbols(table, pairs) ==
    IF pairs = <<>> THEN table
    ELSE AssignSymbols([n \in DOMAIN table \cup {pairs[1].name} |->
                           IF n = pairs[1].name THEN pairs[1].rev ELSE table[n]],
                       Tail(pairs))

\* the index of the first line from k on that ends a log body
RECURSIVE LogEnd(_, _)
LogEnd(lines, k) ==
    IF k > Len(lines) THEN k
    ELSE IF StartsWith(StripS(lines[k]), "text") \/ StartsWith(StripS(lines[k]), "revision")
    THEN k
    ELSE LogEnd(lines, k + 1)

\* "\n".join(log_lines).rstrip()
LogText(log_lines) == RStripS(JoinLines(log_lines))

\* the lines that end the header of a revision block
IsTerminator(ls) ==
    \/ ls = ""
    \/ StartsWith(ls, "-----")
    \/ StartsWith(ls, "=====")
    \/ StartsWith(ls, "text")

\* if cur_rev: fh.revisions.append(cur_rev)
Appended(revisions, rev) == IF rev = <<>> THEN revisions ELSE Append(revisions, rev[1])

\* list(reversed(fh.revisions))
Reversed(revisions) ==
    [k \in 1..Len(revisions) |-> revisions[Len(revisions) + 1 - k]]

\* the file-level symbols added to the first revision of their label
ResolveSymbols(revisions, table) ==
    [k \in 1..Len(revisions) |->
        [revisions[k] EXCEPT !.symbols =
            @ \cup {n \in DOMAIN table :
                      /\ table[n] = revisions[k].rev
                      /\ \A j \in 1..(k - 1) : revisions[j].rev # revisions[k].rev}]]

\* a header line that is no revision marker: symbols are collected
HeaderLine ==
    /\ rlog_pc = "outer"
    /\ rlog_i <= Len(rlog_lines)
    /\ in_header_section
    /\ ~IsRevisionMarker(rlog_lines[rlog_i])
    /\ LET stripped == StripS(rlog_lines[rlog_i])
       IN  fh_symbols' =
               IF StartsWith(stripped, "symbol")
               THEN AssignSymbols(fh_symbols,
                        SymbolPairs(SymbolRest(SymbolLineRest(stripped), rlog_i + 1,
                                               rlog_lines, "revision")))
               ELSE fh_symbols
    /\ rlog_i' = rlog_i + 1
    /\ UNCHANGED <<pipeline, parser, report, rlog_lines, in_header_section, cur_rev,
                   fh_revisions, rlog_pc>>

\* a revision marker met by the outer loop starts a block
RevisionMarker ==
    /\ rlog_pc = "outer"
    /\ rlog_i <= Len(rlog_lines)
    /\ IsRevisionMarker(rlog_lines[rlog_i])
    /\ in_header_section' = FALSE
    /\ fh_revisions' = Appended(fh_revisions, cur_rev)
    /\ cur_rev' = <<NewRevision(Words(StripS(rlog_lines[rlog_i]))[2])>>
    /\ rlog_i' = rlog_i + 1
    /\ rlog_pc' = "block"
    /\ UNCHANGED <<pipeline, parser, report, rlog_lines, fh_symbols>>

\* past the header, a line of the outer loop that is no revision marker
SkipLine ==
    /\ rlog_pc = "outer"
    /\ rlog_i <= Len(rlog_lines)
    /\ ~in_header_section
    /\ ~IsRevisionMarker(rlog_lines[rlog_i])
    /\ rlog_i' = rlog_i + 1
    /\ UNCHANGED <<pipeline, parser, report, rlog_lines, in_header_section, cur_rev,
                   fh_symbols, fh_revisions, rlog_pc>>

\* inner loop: a "date:" line
BlockDate ==
    /\ rlog_pc = "block"
    /\ rlog_i <= Len(rlog_lines)
    /\ StartsWith(StripS(rlog_lines[rlog_i]), "date:")
    /\ cur_rev' = <<ApplyFields(cur_rev[1], SplitOn(StripS(rlog_lines[rlog_i]), ";"),
                                   iso, now)>>
    /\ rlog_i' = rlog_i + 1
    /\ UNCHANGED <<pipeline, parser, report, rlog_lines, in_header_section, fh_symbols,
                   fh_revisions, rlog_pc>>

\* inner loop: a "branches:" line
BlockBranches ==
    /\ rlog_pc = "block"
    /\ rlog_i <= Len(rlog_lines)
    /\ LET ls == StripS(rlog_lines[rlog_i])
       IN  /\ ~StartsWith(ls, "date:")
           /\ StartsWith(ls, "branches:")
           /\ cur_rev' = IF StripS(After(ls, "branches:")) # ""
                         THEN <<[cur_rev[1] EXCEPT
                                       !.branches = Words(After(ls, "branches:"))]>>
                         ELSE cur_rev
    /\ rlog_i' = rlog_i + 1
    /\ UNCHANGED <<pipeline, parser, report, rlog_lines, in_header_section, fh_symbols,
                   fh_revisions, rlog_pc>>

\* inner loop: a symbols line of the revision
BlockSymbols ==
    /\ rlog_pc = "block"
    /\ rlog_i <= Len(rlog_lines)
    /\ LET ls == StripS(rlog_lines[rlog_i])
           pairs == SymbolPairs(SymbolRest(SymbolLineRest(ls), rlog_i + 1, rlog_lines,
                                           "log"))
       IN  /\ ~StartsWith(ls, "date:")
           /\ ~StartsWith(ls, "branches:")
           /\ StartsWith(ls, "symbols:") \/ StartsWith(ls, "symbol:")
           /\ cur_rev' = <<[cur_rev[1] EXCEPT
                                  !.symbols = @ \cup {pairs[k].name : k \in 1..Len(pairs)}]>>
    /\ rlog_i' = rlog_i + 1
    /\ UNCHANGED <<pipeline, parser, report, rlog_lines, in_header_section, fh_symbols,
                   fh_revisions, rlog_pc>>

\* inner loop: the "log" line and the log body after it
BlockLog ==
    /\ rlog_pc = "block"
    /\ rlog_i <= Len(rlog_lines)
    /\ StripS(rlog_lines[rlog_i]) = "log"
    /\ LET end == LogEnd(rlog_lines, rlog_i + 1)
       IN  /\ cur_rev' = <<[cur_rev[1] EXCEPT
                                  !.log = LogText(SubSeq(rlog_lines, rlog_i + 1, end - 1))]>>
           /\ rlog_i' = end
    /\ UNCHANGED <<pipeline, parser, report, rlog_lines, in_header_section, fh_symbols,
                   fh_revisions, rlog_pc>>

\* the line is none of the lines the inner loop reads
Unread(ls) ==
    /\ ~StartsWith(ls, "date:")
    /\ ~StartsWith(ls, "branches:")
    /\ ~StartsWith(ls, "symbols:")
    /\ ~StartsWith(ls, "symbol:")
    /\ ls # "log"

\* inner loop: a terminator line ends the block
BlockEnd ==
    /\ rlog_pc = "block"
    /\ rlog_i <= Len(rlog_lines)
    /\ Unread(StripS(rlog_lines[rlog_i]))
    /\ IsTerminator(StripS(rlog_lines[rlog_i]))
    /\ rlog_i' = rlog_i + 1
    /\ rlog_pc' = "outer"
    /\ UNCHANGED <<pipeline, parser, report, rlog_lines, in_header_section, cur_rev,
                   fh_symbols, fh_revisions>>

\* inner loop: any other line is passed over
BlockOther ==
    /\ rlog_pc = "block"
    /\ rlog_i <= Len(rlog_lines)
    /\ Unread(StripS(rlog_lines[rlog_i]))
    /\ ~IsTerminator(StripS(rlog_lines[rlog_i]))
    /\ rlog_i' = rlog_i + 1
    /\ UNCHANGED <<pipeline, parser, report, rlog_lines, in_header_section, cur_rev,
                   fh_symbols, fh_revisions, rlog_pc>>

\* inner loop: the lines are exhausted
BlockExhausted ==
    /\ rlog_pc = "block"
    /\ rlog_i > Len(rlog_lines)
    /\ rlog_pc' = "outer"
    /\ UNCHANGED <<pipeline, parser, report, rlog_lines, rlog_i, in_header_section,
                   cur_rev, fh_symbols, fh_revisions>>

\* after the outer loop: the last revision, the reversal, the file's symbols
ReturnHistory ==
    /\ rlog_pc = "outer"
    /\ rlog_i > Len(rlog_lines)
    /\ fh_revisions' = ResolveSymbols(Reversed(Appended(fh_revisions, cur_rev)),
                                      fh_symbols)
    /\ rlog_pc' = "returned"
    /\ UNCHANGED <<pipeline, parser, report, rlog_lines, rlog_i, in_header_section,
                   cur_rev, fh_symbols>>

NextRlog ==
    \/ HeaderLine
    \/ RevisionMarker
    \/ SkipLine
    \/ BlockDate
    \/ BlockBranches
    \/ BlockSymbols
    \/ BlockLog
    \/ BlockEnd
    \/ BlockOther
    \/ BlockExhausted
    \/ ReturnHistory

(* ---------- the reports parse_rlog is run on ---------- *)

\* the date of day d, in the form the date line is expected to carry
DateText(d) ==
    IF d = 1 THEN "2020.01.01.00.00.00"
    ELSE IF d = 2 THEN "2020.01.02.00.00.00"
    ELSE IF d = 3 THEN "2020.01.03.00.00.00"
    ELSE IF d = 4 THEN "2020.01.04.00.00.00"
    ELSE "2020.01.05.00.00.00"

\* the lines that can stand between a log body and the next block
Terminators ==
    {<<"text", "=====">>, <<"-----">>, <<"=====">>, <<"">>, <<>>}

\* log bodies; none has a line that begins with "revision" or "text"
Bodies == {<<"msg">>, <<"one", "", "two">>}

\* lines between the metadata line and the log
ExtraLines ==
    {<<>>, <<"branches: 1.1.1;">>, <<"branches:">>, <<"symbols: R1:1.1; R2:">>,
     <<"symbol: R1:1.1; R2", ":1.2;">>, <<"lines: +1 -0">>}

\* the lines before the first revision marker
Headers ==
    {<<>>, <<"RCS file: a,v", "symbols: T1:1.1; T2:1.2;">>,
     <<"symbolic names: T1:1.1; T2", ":1.2">>}

\* one revision block of a report
BlockOf(day, who, extra, marked, body, end) ==
    [day |-> day, author |-> who, extra |-> extra, marked |-> marked, body |-> body,
     end |-> end]

\* reports of 1..MaxRevs blocks drawn from a set of blocks
ReportsOf(blocks) == UNION {[1..n -> blocks] : n \in 1..MaxRevs}

\* the label of block k of n: rlog lists the newest revision first
LabelOf(k, n) == IF n + 1 - k = 1 THEN "1.1" ELSE IF n + 1 - k = 2 THEN "1.2" ELSE "1.3"

\* the lines of one block
BlockLines(b, label) ==
    <<"revision " \o label,
      "date: " \o DateText(b.day) \o ";  author: " \o b.author \o ";  state: Exp;">>
    \o b.extra
    \o (IF b.marked THEN <<"log">> ELSE <<>>)
    \o b.body
    \o b.end

\* the lines of the blocks from k on
RECURSIVE BlocksFrom(_, _)
BlocksFrom(blocks, k) ==
    IF k > Len(blocks) THEN <<>>
    ELSE BlockLines(blocks[k], LabelOf(k, Len(blocks))) \o BlocksFrom(blocks, k + 1)

\* out.splitlines() of the report
Render(r) == r.header \o BlocksFrom(r.blocks, 1)

\* blocks listed in any order of dates, each closed the usual way
DatedBlocks ==
    {BlockOf(d, who, <<>>, TRUE, <<"msg">>, <<"text", "=====">>) :
        d \in 1..MaxTs, who \in {"alice", "bob"}}

\* blocks with every kind of terminator after a marked or unmarked body
EndedBlocks ==
    {BlockOf(1, "alice", <<>>, marked, <<"msg">>, end) :
        marked \in BOOLEAN, end \in Terminators}

\* blocks with extra lines and several bodies, each closed the usual way
ExtraBlocks ==
    {BlockOf(1, "alice", extra, TRUE, body, <<"text", "=====">>) :
        extra \in ExtraLines, body \in Bodies}

RlogReports ==
    {[header |-> <<>>, blocks |-> bs] : bs \in ReportsOf(DatedBlocks)}
    \cup {[header |-> <<>>, blocks |-> bs] : bs \in ReportsOf(EndedBlocks)}
    \cup {[header |-> h, blocks |-> bs] :
             h \in Headers, bs \in [1..1 -> ExtraBlocks]}
    \cup {[header |-> h, blocks |-> <<>>] : h \in Headers}

InitRlog ==
    /\ PipelineIdle
    /\ date_s = <<>>
    /\ iso = [ok |-> FALSE]
    /\ now \in Clock
    /\ parts = <<>>
    /\ date_pc = "start"
    /\ date_ts = [days |-> 0, secs |-> 0]
    /\ report \in RlogReports
    /\ rlog_lines = Render(report)
    /\ rlog_i = 1
    /\ in_header_section = TRUE
    /\ cur_rev = <<>>
    /\ fh_symbols = <<>>
    /\ fh_revisions = <<>>
    /\ rlog_pc = "outer"

SpecRlog == InitRlog /\ [][NextRlog]_vars

(* ---------- properties ---------- *)

\* main() has built the commits
Grouped == pc \in {"emit_all", "blobs", "done"}

\* the commits are the result of coalesce_commits
Coalesced == Grouped /\ Len(histories) # 1

\* the records of all groups, group after group
Members(cs) == Concat([g \in 1..Len(cs) |-> cs[g].files])

\* the commit objects of the stream, in order
StreamCommits == SelectSeq(stream, LAMBDA o : o.kind = "commit")

\* the blob objects of the stream, in order
StreamBlobs == SelectSeq(stream, LAMBDA o : o.kind = "blob")

\* the (file, revision) pairs of all file timelines
RevisionPairs ==
    UNION {{<<histories[h].filename, histories[h].revisions[k].rev>> :
                k \in 1..Len(histories[h].revisions)} : h \in 1..Len(histories)}

\* C1: every record given to coalesce_commits is a member of some group of its
\* result, and the groups have as many members as there are records.
C1_NoRecordLost ==
    Coalesced =>
        /\ \A k \in 1..Len(sfcs) :
              \E g \in 1..Len(commits) : sfcs[k] \in Range(commits[g].files)
        /\ Len(Members(commits)) = Len(sfcs)

\* C2: no record is a member of two groups of coalesce_commits' result, nor twice
\* a member of one group.
C2_NoRecordDuplicated ==
    Coalesced =>
        LET m == Members(commits)
        IN  \A p, q \in 1..Len(m) : m[p] = m[q] => p = q

\* C2 witness: coalesce_commits returned several groups, one of several records
C2_Witness ==
    /\ Coalesced
    /\ Len(commits) >= 2
    /\ \E g \in 1..Len(commits) : Len(commits[g].files) >= 2

\* C3: in every group, of coalesce_commits or of the single-file path, the
\* members' file names are pairwise distinct.
C3_DistinctFiles ==
    Grouped =>
        \A g \in 1..Len(commits) :
            \A p, q \in 1..Len(commits[g].files) :
                commits[g].files[p].filename = commits[g].files[q].filename => p = q

\* C3 witness: a group of two files left out a later record of one of its files
\* that has the anchor's author and log and lies within the window
C3_Witness ==
    /\ Coalesced
    /\ \E g \in 1..Len(commits) :
          /\ Len(commits[g].files) >= 2
          /\ \E k \in 1..Len(sfcs) :
                /\ k > IndexOf(sfcs, commits[g].files[1])
                /\ sfcs[k] \notin Range(commits[g].files)
                /\ sfcs[k].filename \in
                       {commits[g].files[p].filename : p \in 1..Len(commits[g].files)}
                /\ sfcs[k].author = commits[g].author
                /\ sfcs[k].log = commits[g].log
                /\ sfcs[k].date_ts <= commits[g].date_ts + commit_fuzz

\* C4: the groups of coalesce_commits are in non-decreasing timestamp order.
C4_GroupsInTimestampOrder ==
    Coalesced =>
        \A g1, g2 \in 1..Len(commits) :
            g1 < g2 => commits[g1].date_ts <= commits[g2].date_ts

\* C4 witness: groups of different timestamps, from histories whose records
\* were not in timestamp order before the sort
C4_Witness ==
    /\ Coalesced
    /\ Len(commits) >= 2
    /\ commits[1].date_ts < commits[Len(commits)].date_ts
    /\ Concat([h \in 1..Len(histories) |-> HistoryCommits(histories[h])]) # sfcs

\* C5: at the end of a run in which every fetch succeeded, the stream holds as
\* many blobs as there are distinct (file, revision) pairs in the timelines.
C5_BlobPerRevision ==
    (/\ pc = "done"
     /\ \A h \in 1..Len(histories) :
           \A k \in 1..Len(histories[h].revisions) : histories[h].revisions[k].co.ok)
        => Len(StreamBlobs) = Cardinality(RevisionPairs)

\* C6: coalesce_commits applied to the members of its own result, sorted again
\* by timestamp, returns the same groups.
C6_CoalescingIdempotent ==
    Coalesced =>
        coalesce_commits(SortByTs(Members(commits)), commit_fuzz, symbol_check) = commits

\* C6 witness: several groups, one of several records, and a record next to
\* them that took part in the first pass only
C6_Witness ==
    /\ Coalesced
    /\ Len(commits) >= 2
    /\ \E g \in 1..Len(commits) : Len(commits[g].files) >= 2
    /\ Len(Members(commits)) < Len(sfcs)

\* C7: the marks of the blobs and commits of the stream are 1, 2, 3, ... in the
\* order written, the next mark is the one after the last, and the blob table
\* holds exactly the marks of the blobs.
C7_MarksSequential ==
    LET marked == SelectSeq(stream, LAMBDA o : o.kind \in {"blob", "commit"})
    IN  /\ \A k \in 1..Len(marked) : marked[k].mark = k
        /\ next_mark = Len(marked) + 1
        /\ {blob_marks[key] : key \in DOMAIN blob_marks} = {b.mark : b \in Range(StreamBlobs)}
        /\ {b.mark : b \in Range(StreamBlobs)} \cap {c.mark : c \in Range(StreamCommits)} = {}

\* C7 witness: blobs and commits have been written in turn
C7_Witness ==
    /\ Len(StreamBlobs) >= 3
    /\ Len(StreamCommits) >= 2
    /\ stream[Len(stream)].kind = "blob"

\* C8: the commit written for a group names as parent the largest mark the
\* last-commit table holds for a file of the group, and names none exactly
\* when no earlier commit of the stream touches a file of the group.
C8_ParentIsLatestTouching ==
    [][(pc = "blobs" /\ pc' = "emit_all") =>
        LET object == stream'[Len(stream) + 1]
            touched == {commits[idx].files[k].filename :
                           k \in 1..Len(commits[idx].files)}
            recorded == {last_commit_mark_for_file[f] :
                            f \in touched \cap DOMAIN last_commit_mark_for_file}
            earlier == \E k \in 1..Len(stream) :
                          /\ stream[k].kind = "commit"
                          /\ \E n \in 1..Len(stream[k].ops) :
                                stream[k].ops[n].path \in touched
        IN  /\ object.kind = "commit"
            /\ (object.from = 0) <=> ~earlier
            /\ object.from # 0 =>
                  /\ object.from \in recorded
                  /\ \A m \in recorded : m <= object.from]_vars

\* C8 witness: a commit of two files was written whose files had been touched
\* last by two different commits
C8_Witness ==
    \E k \in 1..Len(stream) :
        /\ stream[k].kind = "commit"
        /\ Len(stream[k].ops) >= 2
        /\ \E j \in 1..(k - 1) :
              /\ stream[j].kind = "commit"
              /\ stream[j].mark < stream[k].from
              /\ \E n \in 1..Len(stream[j].ops) :
                    /\ stream[j].ops[n].path \in
                           {stream[k].ops[p].path : p \in 1..Len(stream[k].ops)}
                    /\ \A i \in (j + 1)..(k - 1) :
                          stream[i].kind = "commit" =>
                              \A p \in 1..Len(stream[i].ops) :
                                  stream[i].ops[p].path # stream[j].ops[n].path

\* C9: every parent reference written names the commit written just before,
\* so that the commits form one line.
C9_LinearHistory ==
    \A k \in 1..Len(StreamCommits) :
        StreamCommits[k].from # 0 =>
            /\ k > 1
            /\ StreamCommits[k].from = StreamCommits[k - 1].mark

\* C10: a run on one file timeline of k revisions writes k commits, the j-th
\* with the one file at the j-th revision, oldest first, and every commit after
\* the first names the commit of the revision before as parent.
C10_SingleFileChain ==
    (pc = "done" /\ Len(histories) = 1) =>
        LET fh == histories[1]
            cs == StreamCommits
        IN  /\ Len(cs) = Len(fh.revisions)
            /\ \A j \in 1..Len(cs) :
                  /\ Len(cs[j].ops) = 1
                  /\ cs[j].ops[1].op = "M"
                  /\ cs[j].ops[1].path = fh.filename
                  /\ <<fh.filename, fh.revisions[j].rev>> \in DOMAIN blob_marks
                  /\ cs[j].ops[1].bmark = blob_marks[<<fh.filename, fh.revisions[j].rev>>]
                  /\ cs[j].date_ts = fh.revisions[j].date_ts
                  /\ j > 1 => cs[j].from = cs[j - 1].mark

\* C10 witness: the run on one timeline of several revisions has ended
C10_Witness ==
    /\ pc = "done"
    /\ Len(histories) = 1
    /\ Len(histories[1].revisions) >= 2

\* emit_commit has returned, or no commit was emitted yet
CommitWritten == pc = "emit_all"

\* C11: every path operation of every commit written has mode 755 if the
\* member's content begins with the characters # and !, and mode 644 otherwise.
C11_ExecutableIffShebang ==
    CommitWritten =>
    \A g \in 1..Len(StreamCommits) :
        LET ops == StreamCommits[g].ops
            files == commits[g].files
        IN  /\ Len(ops) = Len(files)
            /\ \A k \in 1..Len(ops) :
                  LET text == files[k].content
                  IN  ops[k].mode =
                          IF Len(text) >= 2 /\ text[1] = "#" /\ text[2] = "!"
                          THEN "755" ELSE "644"

\* C11 witness: a script was written with mode 755 and a text that begins with
\* # alone with mode 644
C11_Witness ==
    /\ CommitWritten
    /\ \E g \in 1..Len(StreamCommits) :
          \E k \in 1..Len(StreamCommits[g].ops) : StreamCommits[g].ops[k].mode = "755"
    /\ \E g \in 1..Len(StreamCommits) :
          \E k \in 1..Len(StreamCommits[g].ops) :
              /\ StreamCommits[g].ops[k].mode = "644"
              /\ commits[g].files[k].content = <<"#">>

\* the run has ended
Ended == pc \in {"done", "exit_1"}

\* C14: when the run has ended, no history of the working set is without
\* revisions, and if no file yielded a revision the run has ended in failure
\* with nothing written.
C14_NoWorkIsFatal ==
    Ended =>
        /\ \A h \in 1..Len(histories) : histories[h].revisions # <<>>
        /\ RevisionPairs = {} => (pc = "exit_1" /\ stream = <<>>)

\* the histories with every failed fetch replaced by a successful one
AllFetched(hs) ==
    [h \in 1..Len(hs) |->
        [hs[h] EXCEPT !.revisions =
            [k \in 1..Len(hs[h].revisions) |->
                [hs[h].revisions[k] EXCEPT !.co =
                    IF @.ok THEN @ ELSE CoOk(PlainText)]]]]

\* whether co failed for the revision a record was made of
FetchFailed(sf) ==
    \E h \in 1..Len(histories) :
        /\ histories[h].rcs_path = sf.rcs_path
        /\ \E k \in 1..Len(histories[h].revisions) :
              /\ histories[h].revisions[k].rev = sf.rev_id
              /\ ~histories[h].revisions[k].co.ok

\* the number of revisions of all histories
RevisionCount(hs) == Len(Concat([h \in 1..Len(hs) |-> hs[h].revisions]))

\* C15: when build_single_file_commits returns it has made one record of every
\* revision; the records are those of the run in which every fetch succeeds,
\* but for the empty content of the revisions whose fetch failed.
C15_FailedFetchKeepsRevision ==
    pc = "built" =>
        LET full == BuildSingleFileCommits(AllFetched(histories))
        IN  /\ Len(sfcs) = RevisionCount(histories)
            /\ Len(sfcs) = Len(full)
            /\ \A k \in 1..Len(sfcs) :
                  sfcs[k] = [full[k] EXCEPT !.content =
                                IF FetchFailed(sfcs[k]) THEN <<>> ELSE @]

\* C15 witness: a run with a failed and a successful fetch has ended and has
\* written the empty blob
C15_Witness ==
    /\ pc = "done"
    /\ \E k \in 1..Len(sfcs) : FetchFailed(sfcs[k])
    /\ \E k \in 1..Len(sfcs) : ~FetchFailed(sfcs[k])
    /\ \E b \in Range(StreamBlobs) : b.data = <<>>

(* ---------- the window scan, seen from its result ---------- *)

\* coalesce_commits has just returned
Returned == pc = "emit_all" /\ idx = 1 /\ Len(histories) # 1

\* the position in sfcs of the anchor of group g
AnchorIdx(g) == IndexOf(sfcs, commits[g].files[1])

\* the members of group g that precede position j of sfcs: group_files when
\* the scan of the group's window is at j
EarlierMembers(g, j) == {m \in Range(commits[g].files) : IndexOf(sfcs, m) < j}

\* group_symbols when the scan of the group's window is at j
SymbolsBefore(g, j) == UNION {m.symbols : m \in EarlierMembers(g, j)}

\* one set is a subset of the other
Comparable(A, B) == A \subseteq B \/ B \subseteq A

\* the record at j lies after the anchor of group g and within its window, has
\* the anchor's author and log, and its file is not yet in the group
Eligible(g, j) ==
    LET base == commits[g].files[1]
    IN  /\ j > AnchorIdx(g)
        /\ sfcs[j].date_ts <= base.date_ts + commit_fuzz
        /\ sfcs[j].author = base.author
        /\ sfcs[j].log = base.log
        /\ sfcs[j].filename \notin {m.filename : m \in EarlierMembers(g, j)}

\* C16 (as claimed): with the symbol check enabled no group has a tagged and an
\* untagged member.
C16_TaggedNeverWithUntagged ==
    (Returned /\ symbol_check) =>
        \A g \in 1..Len(commits) :
            ~(\E m, u \in Range(commits[g].files) : m.symbols # {} /\ u.symbols = {})

\* C16 (amended): with the symbol check enabled a record that is eligible for a
\* group is accepted whenever its symbol set or the symbol set accumulated by
\* the group is empty, so tagged and untagged records do share groups.
C16_EmptySymbolsNeverRejected ==
    (Returned /\ symbol_check) =>
        \A g \in 1..Len(commits) : \A j \in 1..Len(sfcs) :
            (Eligible(g, j) /\ (sfcs[j].symbols = {} \/ SymbolsBefore(g, j) = {}))
                => sfcs[j] \in Range(commits[g].files)

\* C16 witness: with the symbol check enabled a group has a tagged and an
\* untagged member
C16_Witness ==
    /\ Returned
    /\ symbol_check
    /\ \E g \in 1..Len(commits) :
          \E m, u \in Range(commits[g].files) : m.symbols # {} /\ u.symbols = {}

\* C17: with the symbol check enabled every member after the anchor had, when
\* it was scanned, a symbol set comparable by inclusion with the set accumulated
\* by the group; and two records of different files with equal author, log and
\* time whose symbol sets are not comparable make two groups of one member.
C17_AcceptedOnlyIfComparable ==
    (Returned /\ symbol_check) =>
        /\ \A g \in 1..Len(commits) : \A k \in 2..Len(commits[g].files) :
              LET m == commits[g].files[k]
              IN  Comparable(m.symbols, SymbolsBefore(g, IndexOf(sfcs, m)))
        /\ (/\ Len(sfcs) = 2
            /\ sfcs[1].filename # sfcs[2].filename
            /\ sfcs[1].author = sfcs[2].author
            /\ sfcs[1].log = sfcs[2].log
            /\ sfcs[1].date_ts = sfcs[2].date_ts
            /\ ~Comparable(sfcs[1].symbols, sfcs[2].symbols))
           => (/\ Len(commits) = 2
               /\ commits[1].files = <<sfcs[1]>>
               /\ commits[2].files = <<sfcs[2]>>)

\* C17 witness: two records of different files with equal author, log and time
\* and symbol sets that are not comparable were given to coalesce_commits with
\* the symbol check enabled
C17_Witness ==
    /\ Returned
    /\ symbol_check
    /\ Len(sfcs) = 2
    /\ sfcs[1].filename # sfcs[2].filename
    /\ sfcs[1].author = sfcs[2].author
    /\ sfcs[1].log = sfcs[2].log
    /\ sfcs[1].date_ts = sfcs[2].date_ts
    /\ ~Comparable(sfcs[1].symbols, sfcs[2].symbols)

\* C18: in every group of coalesce_commits the group's timestamp, author and
\* log are the first member's; every member has that author and log and a
\* timestamp from the anchor's to the anchor's plus the fuzz; the members are
\* in the order of the sorted input; the group's timestamp is the least of its
\* members'; and the group's symbols are the union of its members' symbols.
C18_GroupShape ==
    Returned =>
        \A g \in 1..Len(commits) :
            LET c == commits[g]
                base == c.files[1]
            IN  /\ c.date_ts = base.date_ts
                /\ c.author = base.author
                /\ c.log = base.log
                /\ \A m \in Range(c.files) :
                      /\ m \in Range(sfcs)
                      /\ m.author = base.author
                      /\ m.log = base.log
                      /\ base.date_ts <= m.date_ts
                      /\ m.date_ts <= base.date_ts + commit_fuzz
                /\ \A p, q \in 1..Len(c.files) :
                      p < q => IndexOf(sfcs, c.files[p]) < IndexOf(sfcs, c.files[q])
                /\ c.date_ts = Min({m.date_ts : m \in Range(c.files)})
                /\ c.symbols = UNION {m.symbols : m \in Range(c.files)}

\* C18 witness: a group has two members of different timestamps and
\* different symbol sets
C18_Witness ==
    /\ Returned
    /\ commit_fuzz > 0
    /\ \E g \in 1..Len(commits) :
          \E m, u \in Range(commits[g].files) :
              m.date_ts # u.date_ts /\ m.symbols # u.symbols

\* C19: every record that is eligible for a group and passes the symbol check,
\* or is scanned with the check disabled, is a member of the group, whatever
\* lies between it and the anchor.
C19_EligibleIsAccepted ==
    Returned =>
        \A g \in 1..Len(commits) : \A j \in 1..Len(sfcs) :
            (/\ Eligible(g, j)
             /\ (~symbol_check \/ Comparable(sfcs[j].symbols, SymbolsBefore(g, j))))
                => sfcs[j] \in Range(commits[g].files)

\* C19 witness: a group has two members of different files and different
\* timestamps, the second at the far end of the window, with a record of
\* another log between them
C19_Witness ==
    /\ Returned
    /\ commit_fuzz > 0
    /\ \E g \in 1..Len(commits) : \E j, k \in 1..Len(sfcs) :
          /\ AnchorIdx(g) < j
          /\ j < k
          /\ sfcs[k] \in Range(commits[g].files)
          /\ sfcs[k].date_ts = commits[g].date_ts + commit_fuzz
          /\ sfcs[j].log # commits[g].log

(* ---------- tag resets ---------- *)

\* the positions of the commit objects in the stream
CommitPositions == {p \in 1..Len(stream) : stream[p].kind = "commit"}

\* the number of the group whose commit object is at position p
GroupAt(p) == Cardinality({q \in CommitPositions : q <= p})

\* the tag resets written between the commit object at p and the next object
\* that is not a tag reset
ResetsAfter(p) ==
    LET stops == {q \in (p + 1)..Len(stream) : stream[q].kind # "reset"}
        last == IF stops = {} THEN Len(stream) ELSE Min(stops) - 1
    IN  SubSeq(stream, p + 1, last)

\* C20: after the commit object of every group, with its path operations, come
\* one tag reset per symbol of the group and then, when every revision is
\* tagged, one tag reset per member named by the member's revision id; all of
\* them point at the group's commit mark, and no tag reset is written elsewhere.
C20_TagResetsFollowCommit ==
    CommitWritten =>
    /\ \A p \in CommitPositions :
          LET c == commits[GroupAt(p)]
              rs == ResetsAfter(p)
              n == Cardinality(c.symbols)
          IN  /\ Len(stream[p].ops) = Len(c.files)
              /\ Len(rs) = n + (IF tag_each_rev THEN Len(c.files) ELSE 0)
              /\ {rs[k].tag : k \in 1..n} = c.symbols
              /\ \A k \in 1..Len(rs) : rs[k].from = stream[p].mark
              /\ tag_each_rev =>
                    \A k \in 1..Len(c.files) : rs[n + k].tag = c.files[k].rev_id
    /\ \A q \in 1..Len(stream) :
          stream[q].kind = "reset" =>
              (q > 1 /\ stream[q - 1].kind \in {"commit", "reset"})

\* C20 witness: the commit of a group of two members and two symbols was
\* written with every revision tagged, followed by its four tag resets
C20_Witness ==
    /\ CommitWritten
    /\ tag_each_rev
    /\ \E p \in CommitPositions :
          /\ Cardinality(commits[GroupAt(p)].symbols) = 2
          /\ Len(commits[GroupAt(p)].files) = 2
          /\ Len(ResetsAfter(p)) = 4

(* ---------- dates ---------- *)

\* the fields of a date string, as the specification reads it
DottedFields == Split(Strip(date_s), ".")

\* the date string has six fields of decimal digits
SixIntegerFields ==
    /\ Len(DottedFields) = 6
    /\ \A k \in 1..6 : AllDigits(DottedFields[k])

\* the year of a date string of six integer fields, a year field of one or two
\* digits read as 19YY
YearOf(fields) ==
    IF Len(fields[1]) <= 2 THEN 1900 + DigitsValue(fields[1])
    ELSE DigitsValue(fields[1])

\* the date string is a valid date of six fields
ValidSixFieldDate ==
    /\ SixIntegerFields
    /\ ValidDateTime(YearOf(DottedFields), DigitsValue(DottedFields[2]),
                     DigitsValue(DottedFields[3]), DigitsValue(DottedFields[4]),
                     DigitsValue(DottedFields[5]), DigitsValue(DottedFields[6]))

\* C12: for a valid date of six integer fields parse_rcs_date returns the
\* timestamp of that date, its year being 1900 + Y for a year field Y of one or
\* two digits and the year field's value for three digits or more.
C12_ShortYearIs19YY ==
    (date_pc = "returned" /\ ValidSixFieldDate) =>
        date_ts = Stamp(YearOf(DottedFields), DigitsValue(DottedFields[2]),
                        DigitsValue(DottedFields[3]), DigitsValue(DottedFields[4]),
                        DigitsValue(DottedFields[5]), DigitsValue(DottedFields[6]))

\* C13: parse_rcs_date returns a timestamp for every string, and the time of
\* the call when the string is neither a valid date of six fields nor accepted
\* by fromisoformat.
C13_UnparsableIsNow ==
    date_pc = "returned" =>
        /\ date_ts.days \in Int
        /\ date_ts.secs \in 0..86399
        /\ (~ValidSixFieldDate /\ ~iso.ok) => date_ts = now

(* ---------- the emitter's tables and the references of the stream ---------- *)

\* the tag resets of the stream
StreamResets == SelectSeq(stream, LAMBDA o : o.kind = "reset")

\* in every file each symbol names one revision at most
SymbolsNameOneRevision ==
    \A h \in 1..Len(histories) :
        \A j, k \in 1..Len(histories[h].revisions) :
            j # k => histories[h].revisions[j].symbols
                         \cap histories[h].revisions[k].symbols = {}

\* C21: when in every file each symbol names one revision, no two tag resets
\* of the stream give one tag name to different commits.
C21_TagBoundOnce ==
    (CommitWritten /\ SymbolsNameOneRevision) =>
        \A p, q \in 1..Len(StreamResets) :
            StreamResets[p].tag = StreamResets[q].tag
                => StreamResets[p].from = StreamResets[q].from

\* C22: emit_commit sets the last-commit entry of every file of the group to
\* the mark of the new commit, leaves the entries of all other files as they
\* were, and leaves the blob marks as they were.
C22_LastCommitFrame ==
    [][(pc = "blobs" /\ pc' = "emit_all") =>
        LET commit_mark == stream'[Len(stream) + 1].mark
            touched == {commits[idx].files[k].filename :
                           k \in 1..Len(commits[idx].files)}
        IN  /\ DOMAIN last_commit_mark_for_file' =
                   DOMAIN last_commit_mark_for_file \cup touched
            /\ \A f \in touched : last_commit_mark_for_file'[f] = commit_mark
            /\ \A f \in DOMAIN last_commit_mark_for_file \ touched :
                  last_commit_mark_for_file'[f] = last_commit_mark_for_file[f]
            /\ blob_marks' = blob_marks]_vars

\* C22 witness: a commit was written that touched one file and left the entry
\* of another file at an earlier commit
C22_Witness ==
    /\ pc = "emit_all"
    /\ \E f, g \in DOMAIN last_commit_mark_for_file :
          /\ last_commit_mark_for_file[f] = next_mark - 1
          /\ last_commit_mark_for_file[g] # 0
          /\ last_commit_mark_for_file[g] < last_commit_mark_for_file[f]

\* no two pairs have one mark
Injective(table) ==
    \A a, b \in DOMAIN table : table[a] = table[b] => a = b

\* C23: the first emit_blob for a (file, revision) pair takes the next mark,
\* records it for the pair and writes one blob of that mark; a later call for
\* the pair returns the recorded mark, allocates no mark and writes nothing;
\* and the recorded marks of different pairs differ.
C23_EmitBlobIdempotent ==
    [][(pc = "blobs" /\ fpos' = fpos + 1) =>
        LET sf == commits[idx].files[fpos]
            pair == <<sf.filename, sf.rev_id>>
            returned == tree_entries'[Len(tree_entries')].bmark
        IN  /\ IF pair \in DOMAIN blob_marks
               THEN /\ returned = blob_marks[pair]
                    /\ next_mark' = next_mark
                    /\ stream' = stream
                    /\ blob_marks' = blob_marks
               ELSE /\ returned = next_mark
                    /\ next_mark' = next_mark + 1
                    /\ Len(stream') = Len(stream) + 1
                    /\ SubSeq(stream', 1, Len(stream)) = stream
                    /\ stream'[Len(stream')].kind = "blob"
                    /\ stream'[Len(stream')].mark = returned
                    /\ DOMAIN blob_marks' = DOMAIN blob_marks \cup {pair}
                    /\ blob_marks'[pair] = returned
                    /\ \A k \in DOMAIN blob_marks : blob_marks'[k] = blob_marks[k]
            /\ Injective(blob_marks')]_vars

\* C23 witness: emit_blob has just returned, for a pair of a later commit, the
\* mark of a blob written before an earlier commit
C23_Witness ==
    /\ pc = "blobs"
    /\ tree_entries # <<>>
    /\ \E p \in 1..Len(stream) :
          /\ stream[p].kind = "commit"
          /\ tree_entries[Len(tree_entries)].bmark < stream[p].mark
    /\ Cardinality(DOMAIN blob_marks) >= 2

\* C28: every path operation of a commit names a blob written before the
\* commit; every parent reference names a commit written before, of a smaller
\* mark, and no blob; every tag reset names a commit written before it.
C28_DefinedBeforeReferenced ==
    CommitWritten =>
        \A p \in 1..Len(stream) :
            /\ stream[p].kind = "commit" =>
                  /\ \A n \in 1..Len(stream[p].ops) :
                        stream[p].ops[n].op = "M" =>
                            \E q \in 1..(p - 1) :
                                /\ stream[q].kind = "blob"
                                /\ stream[q].mark = stream[p].ops[n].bmark
                  /\ stream[p].from # 0 =>
                        /\ \E q \in 1..(p - 1) :
                              /\ stream[q].kind = "commit"
                              /\ stream[q].mark = stream[p].from
                        /\ stream[p].from < stream[p].mark
                        /\ \A q \in 1..Len(stream) :
                              stream[q].kind = "blob" => stream[q].mark # stream[p].from
            /\ stream[p].kind = "reset" =>
                  \E q \in 1..(p - 1) :
                      /\ stream[q].kind = "commit"
                      /\ stream[q].mark = stream[p].from

\* C28 witness: the stream holds a commit with a parent and a path operation,
\* and a tag reset
C28_Witness ==
    /\ CommitWritten
    /\ \E p \in 1..Len(stream) :
          /\ stream[p].kind = "commit"
          /\ stream[p].from # 0
          /\ \E n \in 1..Len(stream[p].ops) : stream[p].ops[n].op = "M"
    /\ StreamResets # <<>>

(* ---------- the single-file path ---------- *)

\* main has just built the commits of a single history
SingleFileBuilt == pc = "emit_all" /\ idx = 1 /\ Len(histories) = 1

\* C27: the commits main builds for a single history are, group for group, the
\* result of coalesce_commits on the same records for every fuzz window and
\* with the symbol check on or off.
C27_SingleFileAsCoalesced ==
    SingleFileBuilt =>
        \A fuzz \in 0..MaxTs : \A symcheck \in BOOLEAN :
            commits = coalesce_commits(sfcs, fuzz, symcheck)

\* C27 witness: the single history has two revisions of one author and log,
\* one of them tagged
C27_Witness ==
    /\ SingleFileBuilt
    /\ \E j, k \in 1..Len(sfcs) :
          /\ j < k
          /\ sfcs[j].author = sfcs[k].author
          /\ sfcs[j].log = sfcs[k].log
          /\ sfcs[j].symbols # sfcs[k].symbols

(* ---------- parse_rlog: the returned history ---------- *)

\* C24: in the history parse_rlog returns, each revision's timestamp is less
\* than or equal to that of the revision after it, whatever the order of the
\* revision blocks in the report.
C24_OldestFirst ==
    rlog_pc = "returned" =>
        \A k \in 1..(Len(fh_revisions) - 1) :
            /\ fh_revisions[k].date_ts # <<>>
            /\ fh_revisions[k + 1].date_ts # <<>>
            /\ LET a == fh_revisions[k].date_ts[1]
                   b == fh_revisions[k + 1].date_ts[1]
               IN  a.days < b.days \/ (a.days = b.days /\ a.secs <= b.secs)

\* C25: for a report whose log bodies have no line beginning with "revision"
\* or "text", parse_rlog returns one record for each revision marker, and the
\* record has the label, the timestamp and the author of its own block and a
\* log that begins with its own block's log body, whatever stands between one
\* block and the next marker.
C25_MarkerStartsBlock ==
    rlog_pc = "returned" =>
        /\ Len(fh_revisions) = Len(report.blocks)
        /\ \A k \in 1..Len(fh_revisions) :
              LET b == report.blocks[Len(report.blocks) + 1 - k]
              IN  /\ fh_revisions[k].rev = LabelOf(Len(report.blocks) + 1 - k,
                                                   Len(report.blocks))
                  /\ fh_revisions[k].date_ts =
                         <<parse_rcs_date(Chars(DateText(b.day)), iso, now)>>
                  /\ fh_revisions[k].author = <<b.author>>
                  /\ b.marked => StartsWith(fh_revisions[k].log, LogText(b.body))

\* C26: no log message of the returned history has a separator line of dashes
\* or equals signs, or ends with a blank line: the separator or blank line
\* that stands after a log body only ends the block.
C26_TerminatorNotInLog ==
    rlog_pc = "returned" =>
        \A k \in 1..Len(fh_revisions) :
            LET log_lines == SplitOn(fh_revisions[k].log, "\n")
            IN  /\ \A j \in 1..Len(log_lines) :
                      /\ ~StartsWith(StripS(log_lines[j]), "-----")
                      /\ ~StartsWith(StripS(log_lines[j]), "=====")
                /\ StripS(log_lines[Len(log_lines)]) = "" => fh_revisions[k].log = ""

====
